---- MODULE Spec2Model ----
(***************************************************************************)
(* Spider_Pool: the ensure-page cache (_ensure_page), the link weaver      *)
(* (build_link_set), the snapshot store (load_data / save_data) and the    *)
(* batch orchestrator (auto_build_stream), as one state machine.           *)
(*                                                                         *)
(* Text is modelled as a sequence of words: "" is <<>>, concatenation is   *)
(* \o.  A host is the sequence of its dot-separated labels.  Timestamps    *)
(* are readings of an integer clock; 0 stands for None.                    *)
(***************************************************************************)
EXTENDS Integers, Sequences, FiniteSets, TLC

VARIABLES
    db,        \* the SQLite store: pages, domains, external_links, view_stats
    lock,      \* PAGE_LOCK: 0 when free, else the call holding it
    clock,     \* last reading of datetime.utcnow()
    deploy,    \* what the process was started with: content module, API key
    calls,     \* per thread: the locals of its current _ensure_page invocation
    serial,    \* how many invocations have begun
    batch,     \* the auto_build_stream generator
    probe      \* input and output of the pure-function specifications

vars == <<db, lock, clock, deploy, calls, serial, batch, probe>>

----------------------------------------------------------------------------
(* Bounds of the model *)

MaxThreads == 2
MaxCalls == 3
MaxProbePages == 6
MaxRequested == 40

(* Program constants *)

Desired == 6
DefaultThreads == 8
MaxBatchCount == 30

----------------------------------------------------------------------------
(* Values *)

NoHost == <<>>
PoolLocal == <<"pool", "local">>
HostA == <<"a", "example", "com">>
HostB == <<"b", "example", "com">>
HostC == <<"www", "other", "org">>

Slugs == {"news", "tips"}
RequestHosts == {NoHost, HostA}
Prefixes == {"p1"}

(* slug.replace("-", " ") *)
SlugWords(slug) ==
    IF slug = "pool-1001" THEN <<"pool 1001">>
    ELSE IF slug = "pool-2002" THEN <<"pool 2002">>
    ELSE <<slug>>

(* re.fullmatch((pool|page)[\s_-]*\d{3,5}) or re.fullmatch(\d{3,6}) on a text *)
PlaceholderWords ==
    {"pool 1001", "pool 2002", "pool-1001", "pool-4821", "page-1234", "4821"}
(* re.search(pool[\s_-]*\d{3,5}) on a text *)
PoolWords == {"pool 1001", "pool 2002", "pool-1001", "pool-4821"}

Range(s) == {s[i] : i \in DOMAIN s}

RECURSIVE Perms(_)
Perms(S) ==
    IF S = {} THEN {<<>>}
    ELSE UNION {{<<x>> \o p : p \in Perms(S \ {x})} : x \in S}

Take(s, n) == IF Len(s) <= n THEN s ELSE SubSeq(s, 1, n)

Max(a, b) == IF a >= b THEN a ELSE b
Min(a, b) == IF a <= b THEN a ELSE b

----------------------------------------------------------------------------
(* links.py *)

_normalize_host(hostname) ==
    IF Len(hostname) >= 2
    THEN SubSeq(hostname, Len(hostname) - 1, Len(hostname))
    ELSE hostname

(* _random_subdomain: a random prefix before the base host, "" for no base *)
_random_subdomain(base_host, prefix) ==
    IF base_host = NoHost THEN NoHost ELSE <<prefix>> \o base_host

(* the first non-empty normalized domain, else "" *)
FirstDomain(domains) ==
    IF \E i \in DOMAIN domains : domains[i] # NoHost
    THEN domains[CHOOSE i \in DOMAIN domains :
                    /\ domains[i] # NoHost
                    /\ \A j \in DOMAIN domains : domains[j] # NoHost => i <= j]
    ELSE NoHost

(* a draw that takes every external link at most once *)
ExternalDrawsOnce(externals, n, k) ==
    LET m == Min(n, Len(externals))
    IN  {s \in [1..m -> Range(externals)] :
            \A i, j \in 1..m : i # j => s[i] # s[j]}

(* every list the first `n` entries of a shuffled `externals * k` can be *)
ExternalDraws(externals, n, k) ==
    LET m == Min(n, Len(externals) * k)
    IN  {s \in [1..m -> Range(externals)] :
            \A u \in Range(externals) :
                Cardinality({i \in 1..m : s[i] = u}) <=
                    k * Cardinality({j \in DOMAIN externals : externals[j] = u})}

ExternalLink(url) ==
    [kind |-> "external", target |-> url, host |-> NoHost, external |-> TRUE]

PageLink(target, host_hint) ==
    [kind |-> "page", target |-> target, host |-> host_hint,
     external |-> host_hint # NoHost]

HomeLink(host_hint) ==
    [kind |-> "home", target |-> "", host |-> host_hint,
     external |-> host_hint # NoHost]

(* a weaver that forgets to leave the page itself out *)
InternalCandidatesWithSelf(slug, pages, normalized_host) ==
    {key \in DOMAIN pages : _normalize_host(pages[key].host) # normalized_host}

(* candidates compared by their full host name *)
InternalCandidatesByFullHost(slug, pages, normalized_host) ==
    {key \in DOMAIN pages : key # slug /\ pages[key].host # normalized_host}

(* lines 36-40: the pages on another host than the current one *)
InternalCandidates(slug, pages, normalized_host) ==
    {key \in DOMAIN pages :
        key # slug /\ _normalize_host(pages[key].host) # normalized_host}

(* The set of lists build_link_set(slug, data, desired, current_host) can
   return: the shuffles and the random sub-domain prefixes are the choices. *)
build_link_set(slug, data, desired, current_host) ==
    LET pages == data.pages
        externals == data.external_links
        normalized_host == _normalize_host(current_host)
        domains == [i \in DOMAIN data.domains |-> _normalize_host(data.domains[i])]
        preferred_base == IF normalized_host # NoHost THEN normalized_host
                          ELSE FirstDomain(domains)
        anchor_base == IF preferred_base # NoHost THEN preferred_base
                       ELSE IF Len(domains) > 0 THEN domains[1] ELSE NoHost
        internal_candidates == InternalCandidates(slug, pages, normalized_host)
        fallback_candidates ==
            {key \in DOMAIN pages : key # slug /\ key \notin internal_candidates}
        reserved == IF desired \div 2 # 0 THEN desired \div 2 ELSE desired
        ext_parts ==
            IF Len(externals) = 0 THEN {<<>>}
            ELSE {[i \in DOMAIN s |-> ExternalLink(s[i])] :
                    s \in ExternalDraws(externals, reserved,
                                        (desired \div Len(externals)) + 1)}
        orders == {a \o b : a \in Perms(internal_candidates),
                            b \in Perms(fallback_candidates)}
        base_of(target) ==
            IF anchor_base # NoHost THEN anchor_base
            ELSE IF _normalize_host(pages[target].host) # NoHost
                 THEN _normalize_host(pages[target].host)
                 ELSE preferred_base
        page_parts(room) ==
            UNION {{[i \in 1..Min(room, Len(o)) |->
                        PageLink(o[i], _random_subdomain(base_of(o[i]), pf[i]))] :
                      pf \in [1..Min(room, Len(o)) -> Prefixes]} :
                   o \in orders}
        woven ==
            UNION {{e \o p : p \in page_parts(Max(desired - Len(e), 0))} :
                    e \in ext_parts}
        home == {<<HomeLink(_random_subdomain(anchor_base, pf))>> : pf \in Prefixes}
    IN  UNION {IF l = <<>> /\ slug \notin DOMAIN pages
               THEN {Take(h, desired) : h \in home}
               ELSE {Take(l, desired)} : l \in woven}

----------------------------------------------------------------------------
(* storage.py *)

(* a NULL body column *)
NoBody == [parts |-> <<>>, links |-> <<>>]

(* a row of `pages` as load_data returns it *)
BarePage(slug) ==
    [slug |-> slug, title |-> <<>>, topic |-> <<>>, keywords |-> <<>>,
     excerpt |-> <<>>, body |-> NoBody, host |-> NoHost, generator |-> "",
     model |-> "", links |-> <<>>, updated_at |-> 0, created_at |-> 0]

EmptyPages == [s \in {} |-> BarePage(s)]
EmptyViews == [s \in {} |-> 0]

(* DEFAULT_DATA, without the settings and log tables *)
EmptyStore ==
    [pages |-> EmptyPages, domains |-> <<>>, external_links |-> <<>>,
     view_stats |-> EmptyViews]

load_data(store) == store

(* INSERT OR REPLACE on a primary key keeps one row per key, the last one *)
DedupKeepOrder(s) ==
    LET keep == {i \in DOMAIN s : \A j \in DOMAIN s : s[j] = s[i] => j <= i}
        RECURSIVE build(_)
        build(i) == IF i > Len(s) THEN <<>>
                    ELSE IF i \in keep THEN <<s[i]>> \o build(i + 1)
                    ELSE build(i + 1)
    IN  build(1)

NonEmptyOnly(s) ==
    LET RECURSIVE build(_)
        build(i) == IF i > Len(s) THEN <<>>
                    ELSE IF s[i] # NoHost THEN <<s[i]>> \o build(i + 1)
                    ELSE build(i + 1)
    IN  build(1)

(* created_at = page.get("created_at") or page.get("updated_at") *)
StoredPage(page) ==
    [page EXCEPT !.created_at =
        IF page.created_at # 0 THEN page.created_at ELSE page.updated_at]

MergedViews(existing_views, payload) ==
    LET incoming == payload.view_stats
        kept == {s \in DOMAIN existing_views :
                    s \notin DOMAIN incoming /\ s \in DOMAIN payload.pages}
    IN  [s \in DOMAIN incoming \cup kept |->
            IF s \in DOMAIN incoming
            THEN Max(incoming[s],
                     IF s \in DOMAIN existing_views THEN existing_views[s] ELSE 0)
            ELSE existing_views[s]]

(* save_data(payload): every table is deleted and rewritten from the payload;
   view_stats is merged with the rows found in the store *)
save_data(store, payload) ==
    [pages |-> [s \in DOMAIN payload.pages |-> StoredPage(payload.pages[s])],
     domains |-> DedupKeepOrder(NonEmptyOnly(payload.domains)),
     external_links |-> DedupKeepOrder(payload.external_links),
     view_stats |-> MergedViews(store.view_stats, payload)]

SetPage(data, slug, page) ==
    [data EXCEPT !.pages =
        [s \in DOMAIN data.pages \cup {slug} |->
            IF s = slug THEN page ELSE data.pages[s]]]

----------------------------------------------------------------------------
(* content.py *)

TopicPhrases == {<<"phrase-trends">>, <<"phrase-topics">>,
                 <<"phrase-apps">>, <<"phrase-products">>}
TopicTemplates == {"tpl-reading", "tpl-sketch", "tpl-digest", "tpl-thread"}
TitleTemplates == {"title-depth", "title-overview", "title-points"}

PlaceholderLike(text) == Len(text) = 1 /\ text[1] \in PlaceholderWords
ContainsPool(text) == \E i \in DOMAIN text : text[i] \in PoolWords

(* what the backend call can hand back: no credential, a failed request, an
   envelope without choices, text without braces, text that is not JSON, a
   JSON object of the wrong shape, a JSON object *)
Payloads ==
    {[title |-> <<"ai-title">>, intro |-> <<"ai-intro">>, rest |-> <<"ai-sections">>],
     [title |-> <<>>, intro |-> <<>>, rest |-> <<>>]}

FailedKinds == {"error", "no_choices", "no_json", "bad_json", "bad_shape"}

(* a backend call that does not look at the credential *)
_call_deepseek_without_check(api_key) ==
    {[kind |-> k, requested |-> TRUE, payload |-> CHOOSE p \in Payloads : TRUE] :
        k \in FailedKinds}
    \cup {[kind |-> "object", requested |-> TRUE, payload |-> p] : p \in Payloads}

(* lines 18-45; `requested` tells whether requests.post (line 41) was issued *)
_call_deepseek(api_key) ==
    IF ~api_key
    THEN {[kind |-> "no_key", requested |-> FALSE,
           payload |-> CHOOSE p \in Payloads : TRUE]}
    ELSE {[kind |-> k, requested |-> TRUE, payload |-> CHOOSE p \in Payloads : TRUE] :
            k \in FailedKinds}
         \cup {[kind |-> "object", requested |-> TRUE, payload |-> p] : p \in Payloads}

_formalize_topic(raw_topic, keywords, host) ==
    LET topics == IF raw_topic = <<>> THEN TopicPhrases ELSE {raw_topic}
        base == IF Len(keywords) > 0 /\ keywords[1] # ""
                THEN <<keywords[1]>>
                ELSE IF Len(keywords) > 0 THEN host ELSE <<"site">>
    IN  UNION {IF PlaceholderLike(t)
               THEN {base \o <<tpl>> : tpl \in TopicTemplates}
               ELSE {t} : t \in topics}

_safe_title(title, topic) ==
    LET candidate == IF title = <<>> THEN topic ELSE title
    IN  IF ContainsPool(candidate)
        THEN {topic \o <<tpl>> : tpl \in TitleTemplates}
        ELSE {candidate}

RenderedBody(parts, links) == [parts |-> parts, links |-> links]

_build_html(payload, links) ==
    [title |-> IF payload.title # <<>> THEN payload.title ELSE <<"untitled">>,
     excerpt |-> payload.intro,
     body |-> RenderedBody(payload.intro \o payload.rest, links)]

_fallback_article(topic, keywords, links) ==
    LET keyword_text == IF Len(keywords) > 0 THEN keywords ELSE <<"industry">>
        intro == topic \o keyword_text
        formal_topic == IF topic = <<>> THEN <<"matrix">> ELSE topic
    IN  [title |-> formal_topic \o <<"long-read">>,
         excerpt |-> intro,
         body |-> RenderedBody(intro \o <<"template">>, links),
         generator |-> "local",
         model |-> "template",
         topic |-> formal_topic]

AiArticle(structured, formal_topic, links) ==
    LET built == _build_html(structured, links)
    IN  [title |-> built.title, excerpt |-> built.excerpt, body |-> built.body,
         generator |-> "deepseek", model |-> "deepseek-chat",
         topic |-> formal_topic]

(* the articles generate_article can return for one backend response *)
generate_article(topic, keywords, host, links, response) ==
    UNION {IF response.kind = "object"
           THEN {AiArticle([response.payload EXCEPT !.title = t], formal_topic, links) :
                    t \in _safe_title(response.payload.title, formal_topic)}
           ELSE {_fallback_article(formal_topic, keywords, links)} :
           formal_topic \in _formalize_topic(topic, keywords, host)}

----------------------------------------------------------------------------
(* app_factory.py: _ensure_page *)

Threads == 1..MaxThreads

NoArticle == [title |-> <<>>, excerpt |-> <<>>, body |-> NoBody,
              generator |-> "", model |-> "", topic |-> <<>>]

NoArgs == [slug |-> "", topic |-> <<>>, hasKw |-> FALSE, keywords |-> <<>>,
           host |-> NoHost, force |-> FALSE]

(* the locals of one invocation.  Kept for the properties: `id` numbers the
   invocations; `seen` and `hadPage` are what the invocation found persisted
   for its slug when it first loaded the store; `peers` are the invocations
   whose generation for the same slug was in flight at that moment;
   `invoked` counts its calls of generate_article. *)
NewCall ==
    [pc |-> "new", args |-> NoArgs, job |-> 0, id |-> 0, peers |-> {},
     invoked |-> 0,
     data |-> EmptyStore, page |-> BarePage(""), links |-> <<>>,
     topic_seed |-> <<>>, keyword_seed |-> <<>>, host_ref |-> NoHost,
     article |-> NoArticle, result |-> BarePage(""),
     seen |-> BarePage(""), hadPage |-> FALSE]

Overrides ==
    {[topic |-> <<>>, hasKw |-> FALSE, keywords |-> <<>>],
     [topic |-> <<"guide">>, hasKw |-> TRUE, keywords |-> <<"seo">>]}

(* the argument lists of the route handlers' calls *)
DirectArgs ==
    {[slug |-> s, topic |-> o.topic, hasKw |-> o.hasKw, keywords |-> o.keywords,
      host |-> h, force |-> f] :
        s \in Slugs, o \in Overrides, h \in RequestHosts, f \in BOOLEAN}

HasBody(page) == page.body # NoBody

LoadedPage(data, slug) ==
    IF slug \in DOMAIN data.pages THEN data.pages[slug] ELSE BarePage(slug)

(* the worker's future resolves: as_completed sees job calls in the order
   they finish *)
Resolved(c) ==
    IF calls[c].job = 0 THEN batch
    ELSE [batch EXCEPT !.finished = Append(@, c)]

(* lines 174-181: the metadata overrides *)
WithOverrides(page, args) ==
    [page EXCEPT !.topic = IF args.topic # <<>> THEN args.topic ELSE @,
                 !.keywords = IF args.hasKw THEN args.keywords ELSE @]

(* a decision that regenerates on every call *)
needs_generation_always(page, force) == TRUE

(* a decision that looks at force alone *)
needs_generation_force_only(page, force) == force

(* line 183 *)
needs_generation(page, force) == force \/ ~HasBody(page)

(* lines 167-192: the first locked section up to the decision.  When
   generation is needed the section ends here and the lock is free again. *)
Generating(c) == calls[c].pc \in {"generate", "commit", "save"}

(* a first section that saves the page with its overrides before generating *)
EnsureEnterFromSaving(fresh, c, args) ==
    /\ lock = 0
    /\ LET data == load_data(db)
           loaded == LoadedPage(data, args.slug)
           page == WithOverrides(loaded, args)
       IN  /\ calls' = [calls EXCEPT ![c] =
                  [fresh EXCEPT !.pc = "generate", !.args = args,
                                !.keyword_seed = page.keywords,
                                !.topic_seed = IF page.topic # <<>> THEN page.topic
                                               ELSE SlugWords(args.slug),
                                !.host_ref = PoolLocal,
                                !.seen = loaded,
                                !.hadPage = args.slug \in DOMAIN data.pages]]
           /\ db' = save_data(db, SetPage(data, args.slug, page))
    /\ lock' = 0
    /\ UNCHANGED <<clock, deploy, batch, probe>>

(* a first section that keeps PAGE_LOCK while the article is generated *)
EnsureEnterFromHoldingLock(fresh, c, args) ==
    /\ lock = 0
    /\ LET data == load_data(db)
           peers == {calls[d].id : d \in
                        {d \in Threads : /\ d # c
                                         /\ Generating(d)
                                         /\ calls[d].args.slug = args.slug}}
           loaded == LoadedPage(data, args.slug)
           page == WithOverrides(loaded, args)
           keyword_seed == page.keywords
           topic_seed == IF page.topic # <<>> THEN page.topic
                         ELSE SlugWords(args.slug)
           host_ref == IF args.host # NoHost THEN args.host
                       ELSE IF page.host # NoHost THEN page.host ELSE PoolLocal
       IN  \E links \in build_link_set(args.slug, data, Desired, NoHost) :
             IF needs_generation(page, args.force)
             THEN /\ calls' = [calls EXCEPT ![c] =
                        [fresh EXCEPT !.pc = "generate", !.args = args,
                                  !.peers = peers,
                                  !.links = links, !.topic_seed = topic_seed,
                                  !.keyword_seed = keyword_seed,
                                  !.host_ref = host_ref,
                                  !.seen = loaded,
                                  !.hadPage = args.slug \in DOMAIN data.pages]]
                  /\ lock' = c
             ELSE /\ calls' = [calls EXCEPT ![c] =
                        [fresh EXCEPT !.pc = "refresh_host", !.args = args,
                                  !.peers = peers,
                                  !.data = data, !.page = page, !.links = links,
                                  !.seen = loaded, !.hadPage = TRUE]]
                  /\ lock' = c
    /\ UNCHANGED <<db, clock, deploy, batch, probe>>

EnsureEnterFrom(fresh, c, args) ==
    /\ lock = 0
    /\ LET data == load_data(db)
           peers == {calls[d].id : d \in
                        {d \in Threads : /\ d # c
                                         /\ Generating(d)
                                         /\ calls[d].args.slug = args.slug}}
           loaded == LoadedPage(data, args.slug)
           page == WithOverrides(loaded, args)
           keyword_seed == page.keywords
           topic_seed == IF page.topic # <<>> THEN page.topic
                         ELSE SlugWords(args.slug)
           host_ref == IF args.host # NoHost THEN args.host
                       ELSE IF page.host # NoHost THEN page.host ELSE PoolLocal
       IN  \E links \in build_link_set(args.slug, data, Desired, NoHost) :
             IF needs_generation(page, args.force)
             THEN /\ calls' = [calls EXCEPT ![c] =
                        [fresh EXCEPT !.pc = "generate", !.args = args,
                                  !.peers = peers,
                                  !.links = links, !.topic_seed = topic_seed,
                                  !.keyword_seed = keyword_seed,
                                  !.host_ref = host_ref,
                                  !.seen = loaded,
                                  !.hadPage = args.slug \in DOMAIN data.pages]]
                  /\ lock' = 0
             ELSE /\ calls' = [calls EXCEPT ![c] =
                        [fresh EXCEPT !.pc = "refresh_host", !.args = args,
                                  !.peers = peers,
                                  !.data = data, !.page = page, !.links = links,
                                  !.seen = loaded, !.hadPage = TRUE]]
                  /\ lock' = c
    /\ UNCHANGED <<db, clock, deploy, batch, probe>>

Idle(c) == calls[c].job = 0 /\ calls[c].pc \in {"new", "returned", "raised"}

(* a request thread's route handler calls _ensure_page *)
DirectEnter(c) ==
    /\ Idle(c)
    /\ serial < MaxCalls
    /\ \A d \in Threads : d < c => calls[d].pc # "new"
    /\ serial' = serial + 1
    /\ \E args \in DirectArgs :
          EnsureEnterFrom([NewCall EXCEPT !.id = serial + 1], c, args)

(* a refresh that rewrites host and updated_at on every call *)
EnsureRefreshHostAlways(c) ==
    /\ calls[c].pc = "refresh_host"
    /\ LET me == calls[c]
           page == [me.page EXCEPT !.host = me.args.host,
                                   !.updated_at = clock + 1]
           data == SetPage(me.data, me.args.slug, page)
       IN  /\ clock' = clock + 1
           /\ db' = save_data(db, data)
           /\ calls' = [calls EXCEPT ![c] =
                  [@ EXCEPT !.pc = "refresh_links", !.page = page, !.data = data]]
    /\ UNCHANGED <<lock, deploy, serial, batch, probe>>

(* lines 194-198: the host changed *)
EnsureRefreshHost(c) ==
    /\ calls[c].pc = "refresh_host"
    /\ LET me == calls[c]
       IN  IF me.args.host # NoHost /\ me.args.host # me.page.host
           THEN LET page == [me.page EXCEPT !.host = me.args.host,
                                            !.updated_at = clock + 1]
                    data == SetPage(me.data, me.args.slug, page)
                IN  /\ clock' = clock + 1
                    /\ db' = save_data(db, data)
                    /\ calls' = [calls EXCEPT ![c] =
                           [@ EXCEPT !.pc = "refresh_links", !.page = page,
                                     !.data = data]]
           ELSE /\ calls' = [calls EXCEPT ![c].pc = "refresh_links"]
                /\ UNCHANGED <<db, clock>>
    /\ UNCHANGED <<lock, deploy, serial, batch, probe>>

(* lines 199-203: the link set changed; return inside the locked section *)
EnsureRefreshLinks(c) ==
    /\ calls[c].pc = "refresh_links"
    /\ LET me == calls[c]
           page == IF me.page.links # me.links
                   THEN [me.page EXCEPT !.links = me.links] ELSE me.page
       IN  /\ db' = IF me.page.links # me.links
                    THEN save_data(db, SetPage(me.data, me.args.slug, page))
                    ELSE db
           /\ calls' = [calls EXCEPT ![c] =
                  [@ EXCEPT !.pc = "returned", !.result = page,
                            !.data = EmptyStore, !.page = BarePage(""),
                            !.links = <<>>]]
    /\ lock' = 0
    /\ batch' = Resolved(c)
    /\ UNCHANGED <<clock, deploy, serial, probe>>

(* the keyword arguments of the call at lines 205-214, and the keyword
   parameters generate_article declares at content.py lines 259-261 *)
CallKeywords == {"min_words", "max_words", "reference_urls", "log_to_terminal"}
DeclaredKeywords == {"min_words", "max_words", "reference_urls"}

(* the call binds when every keyword passed is one the callee accepts *)
CallBinds(accepted) == CallKeywords \subseteq accepted

(* lines 205-214: generate_article is called outside the lock.  A call that
   does not bind raises TypeError out of _ensure_page. *)
EnsureGenerate(c) ==
    /\ calls[c].pc = "generate"
    /\ LET me == calls[c]
       IN  IF ~CallBinds(deploy.accepted)
              THEN calls' = [calls EXCEPT ![c] =
                        [@ EXCEPT !.pc = "raised", !.invoked = @ + 1,
                                  !.links = <<>>,
                                  !.topic_seed = <<>>, !.keyword_seed = <<>>,
                                  !.host_ref = NoHost]]
              ELSE \E response \in _call_deepseek(deploy.api_key) :
                   \E article \in generate_article(me.topic_seed, me.keyword_seed,
                                                   me.host_ref, me.links, response) :
                      calls' = [calls EXCEPT ![c] =
                          [@ EXCEPT !.pc = "commit", !.invoked = @ + 1,
                                    !.article = article]]
    /\ batch' = IF CallBinds(deploy.accepted) THEN batch ELSE Resolved(c)
    /\ UNCHANGED <<db, lock, clock, deploy, serial, probe>>

(* a merge that forgets to stamp updated_at *)
MergedPageUnstamped(page, article, links, host_ref, keyword_seed, now) ==
    [page EXCEPT !.title = article.title, !.excerpt = article.excerpt,
                 !.body = article.body, !.generator = article.generator,
                 !.model = article.model, !.links = links, !.host = host_ref,
                 !.keywords = keyword_seed, !.topic = article.topic]

(* lines 219-224: page.update(article) and the fields set after it *)
MergedPage(page, article, links, host_ref, keyword_seed, now) ==
    [page EXCEPT !.title = article.title, !.excerpt = article.excerpt,
                 !.body = article.body, !.generator = article.generator,
                 !.model = article.model, !.links = links, !.host = host_ref,
                 !.keywords = keyword_seed, !.topic = article.topic,
                 !.updated_at = now]

(* a second section that reloads and merges without taking PAGE_LOCK *)
EnsureReloadUnlocked(c) ==
    /\ calls[c].pc = "commit"
    /\ LET me == calls[c]
           data == load_data(db)
           page == MergedPage(LoadedPage(data, me.args.slug), me.article,
                              me.links, me.host_ref, me.keyword_seed, clock + 1)
       IN  calls' = [calls EXCEPT ![c] =
               [@ EXCEPT !.pc = "save", !.data = data, !.page = page]]
    /\ clock' = clock + 1
    /\ UNCHANGED <<db, lock, deploy, serial, batch, probe>>

(* lines 216-224: the second locked section reloads the store *)
EnsureReload(c) ==
    /\ calls[c].pc = "commit"
    /\ lock = 0
    /\ LET me == calls[c]
           data == load_data(db)
           page == MergedPage(LoadedPage(data, me.args.slug), me.article,
                              me.links, me.host_ref, me.keyword_seed, clock + 1)
       IN  calls' = [calls EXCEPT ![c] =
               [@ EXCEPT !.pc = "save", !.data = data, !.page = page]]
    /\ lock' = c
    /\ clock' = clock + 1
    /\ UNCHANGED <<db, deploy, serial, batch, probe>>

(* a second section that returns without releasing PAGE_LOCK *)
EnsureCommitKeepingLock(c) ==
    /\ calls[c].pc = "save"
    /\ LET me == calls[c]
       IN  /\ db' = save_data(db, SetPage(me.data, me.args.slug, me.page))
           /\ calls' = [calls EXCEPT ![c] =
                  [@ EXCEPT !.pc = "returned", !.result = me.page,
                            !.data = EmptyStore, !.page = BarePage(""),
                            !.links = <<>>, !.article = NoArticle,
                            !.topic_seed = <<>>, !.keyword_seed = <<>>,
                            !.host_ref = NoHost]]
    /\ batch' = Resolved(c)
    /\ UNCHANGED <<lock, clock, deploy, serial, probe>>

(* lines 226-228: persist and return *)
EnsureCommit(c) ==
    /\ calls[c].pc = "save"
    /\ LET me == calls[c]
       IN  /\ db' = save_data(db, SetPage(me.data, me.args.slug, me.page))
           /\ calls' = [calls EXCEPT ![c] =
                  [@ EXCEPT !.pc = "returned", !.result = me.page,
                            !.data = EmptyStore, !.page = BarePage(""),
                            !.links = <<>>, !.article = NoArticle,
                            !.topic_seed = <<>>, !.keyword_seed = <<>>,
                            !.host_ref = NoHost]]
    /\ lock' = 0
    /\ batch' = Resolved(c)
    /\ UNCHANGED <<clock, deploy, serial, probe>>

----------------------------------------------------------------------------
(* app_factory.py: auto_build_stream *)

(* a count that is only raised to 1 *)
JobCountUnclamped(count) == Max(1, count)

(* line 598 *)
JobCount(count) == Max(1, Min(count, MaxBatchCount))

(* line 603: int(settings.get("ai_thread_count", 8) or 8), at least 1 *)
max_workers(thread_count) ==
    Max(1, IF thread_count = 0 THEN DefaultThreads ELSE thread_count)

RequestedCounts == -1..MaxThreads
ThreadCounts == {-1, 0, 1, 2}
PoolSlugs == {"pool-1001", "pool-2002"}

(* lines 610-618: the jobs of a batch; _random_theme's (topic, keywords,
   slug), or a pool-<digits> slug without topic and keywords *)
JobArgs(random_mode, host) ==
    IF random_mode
    THEN {[slug |-> "news", topic |-> <<"guide">>, hasKw |-> TRUE,
           keywords |-> <<"seo">>, host |-> host, force |-> TRUE]}
    ELSE {[slug |-> s, topic |-> <<>>, hasKw |-> FALSE, keywords |-> <<>>,
           host |-> host, force |-> TRUE] : s \in PoolSlugs}

Executing(c) ==
    calls[c].job # 0 /\ calls[c].pc \in {"start", "generate", "commit", "save"}

(* lines 594-632: the request is read, the jobs are built and every job is
   submitted to the executor *)
BatchStart ==
    /\ batch.pc = "idle"
    /\ \A c \in Threads : calls[c].pc = "new"
    /\ \E count \in RequestedCounts, thread_count \in ThreadCounts,
          random_mode \in BOOLEAN :
         LET n == JobCount(count)
         IN  /\ n <= MaxThreads
             /\ \E jobs \in [1..n -> JobArgs(random_mode, HostA)] :
                  /\ calls' = [c \in Threads |->
                        IF c <= n
                        THEN [NewCall EXCEPT !.pc = "queued", !.args = jobs[c],
                                             !.job = c, !.id = c]
                        ELSE calls[c]]
                  /\ serial' = n
                  /\ batch' = [pc |-> "submitted", total |-> n,
                               thread_count |-> thread_count,
                               max_workers |-> max_workers(thread_count),
                               jobs |-> [i \in 1..n |-> i],
                               finished |-> <<>>, early |-> {},
                               events |-> <<>>, closed |-> 0]
    /\ UNCHANGED <<db, lock, clock, deploy, probe>>

(* a free worker of the pool takes the oldest queued job *)
JobStart(c) ==
    /\ calls[c].pc = "queued"
    /\ \A d \in Threads : d < c => calls[d].pc # "queued"
    /\ Cardinality({d \in Threads : Executing(d)}) < batch.max_workers
    /\ calls' = [calls EXCEPT ![c].pc = "start"]
    /\ UNCHANGED <<db, lock, clock, deploy, serial, batch, probe>>

(* the worker runs _ensure_page with the job's arguments *)
JobEnter(c) ==
    /\ calls[c].pc = "start"
    /\ EnsureEnterFrom(calls[c], c, calls[c].args)
    /\ UNCHANGED serial

(* line 633: as_completed first collects the futures already finished *)
AsCompletedBegin ==
    /\ batch.pc = "submitted"
    /\ batch' = [batch EXCEPT !.pc = "consuming", !.early = Range(batch.finished)]
    /\ UNCHANGED <<db, lock, clock, deploy, calls, serial, probe>>

Emitted == {batch.events[i].job : i \in DOMAIN batch.events}

(* an iteration that yields a finished future again *)
NextFuturesRepeating == Range(batch.finished)

(* the futures as_completed can yield next: any of those found finished
   when it began, then the others in the order they finished *)
NextFutures ==
    IF batch.early \ Emitted # {} THEN batch.early \ Emitted
    ELSE {batch.finished[i] : i \in
            {i \in DOMAIN batch.finished :
                /\ batch.finished[i] \notin Emitted
                /\ \A j \in DOMAIN batch.finished :
                      batch.finished[j] \notin Emitted => i <= j}}

FailedMarker == <<"generation-failed">>

(* lines 634-649 *)
ProgressEvent(idx, c) ==
    LET slug == calls[c].args.slug
        failed == calls[c].pc = "raised"
        page == calls[c].result
    IN  [progress |-> idx + 1,
         total |-> batch.total,
         job |-> c,
         slug |-> slug,
         title |-> IF failed THEN <<slug>> ELSE page.title,
         updated_at |-> IF failed THEN 0 ELSE page.updated_at,
         generator |-> IF failed THEN "unknown" ELSE page.generator,
         preview |-> IF failed THEN FailedMarker
                     ELSE IF page.excerpt # <<>> THEN page.excerpt ELSE page.topic]

(* lines 633-650: one pass of the loop over as_completed *)
BatchEmit ==
    /\ batch.pc = "consuming"
    /\ \E c \in NextFutures :
          batch' = [batch EXCEPT
                      !.events = Append(@, ProgressEvent(Len(batch.events), c))]
    /\ UNCHANGED <<db, lock, clock, deploy, calls, serial, probe>>

(* line 651: the loop is over, the executor is shut down, done is sent *)
BatchFinish ==
    /\ batch.pc = "consuming"
    /\ Len(batch.events) = Len(batch.jobs)
    /\ batch' = [batch EXCEPT !.pc = "done", !.closed = @ + 1]
    /\ UNCHANGED <<db, lock, clock, deploy, calls, serial, probe>>

----------------------------------------------------------------------------
(* The process.  app_factory.py was written against a content module that
   exports request_ai_theme and whose generate_article takes log_to_terminal;
   content.py of the tree declares neither.  deploy.accepted is the keyword
   set of the generate_article the process runs with: the tree's, or the
   tree's with log_to_terminal added.  deploy.api_key tells whether
   DEEPSEEK_API_KEY is set. *)

ContentRevisions == {DeclaredKeywords, DeclaredKeywords \cup {"log_to_terminal"}}

NoBatch ==
    [pc |-> "idle", total |-> 0, thread_count |-> 0, max_workers |-> 0,
     jobs |-> <<>>,
     finished |-> <<>>, early |-> {}, events |-> <<>>, closed |-> 0]
NoProbe ==
    [pc |-> "off", slug |-> "", current_host |-> NoHost, data |-> EmptyStore,
     out |-> <<>>, stored |-> BarePage("")]

Init ==
    /\ db = EmptyStore
    /\ lock = 0
    /\ clock = 0
    /\ serial = 0
    /\ deploy \in [accepted : ContentRevisions, api_key : BOOLEAN]
    /\ calls = [c \in Threads |-> NewCall]
    /\ batch = NoBatch
    /\ probe = NoProbe

(* build_link_set on its own: a page index, an external pool, a domain list
   and a current host are drawn, the link set of one slug is woven, and the
   page is written the way lines 216-227 write it *)

ProbeNames == <<"g1", "g2", "g3", "g4", "g5", "g6", "g7", "g8", "g9">>
ProbeHostPatterns ==
    {[i \in 1..9 |-> NoHost],
     [i \in 1..9 |-> HostA],
     [i \in 1..9 |-> IF i % 2 = 1 THEN HostC ELSE HostB]}
ProbeExternals == {<<>>, <<"u1">>, <<"u1", "u2">>}
ProbeDomains == {<<>>, <<HostC>>}
ProbeHosts == {NoHost, HostA}

GeneratedPage(slug, host) ==
    [BarePage(slug) EXCEPT !.title = <<slug>>, !.topic = <<slug>>,
                           !.body = RenderedBody(<<slug>>, <<>>),
                           !.host = host, !.generator = "local",
                           !.model = "template", !.updated_at = 1,
                           !.created_at = 1]

ProbeStore(k, hosts, self, externals, domains) ==
    LET names == {ProbeNames[i] : i \in 1..k} \cup (IF self THEN {"news"} ELSE {})
        index(n) == CHOOSE i \in 1..9 : ProbeNames[i] = n
    IN  [pages |-> [n \in names |->
                        IF n = "news" THEN GeneratedPage(n, HostA)
                        ELSE GeneratedPage(n, hosts[index(n)])],
         domains |-> domains,
         external_links |-> externals,
         view_stats |-> EmptyViews]

ProbeInputs ==
    {[pc |-> "input", slug |-> "news", current_host |-> h,
      data |-> ProbeStore(k, hosts, self, externals, domains),
      out |-> <<>>, stored |-> BarePage("news")] :
        k \in 0..MaxProbePages, hosts \in ProbeHostPatterns, self \in BOOLEAN,
        externals \in ProbeExternals, domains \in ProbeDomains,
        h \in ProbeHosts}

ProbeWeave ==
    /\ probe.pc = "input"
    /\ \E links \in build_link_set(probe.slug, probe.data, Desired,
                                   probe.current_host) :
         LET page == MergedPage(LoadedPage(probe.data, probe.slug), NoArticle,
                                links, PoolLocal, <<>>, 2)
             saved == save_data(probe.data, SetPage(probe.data, probe.slug, page))
         IN  probe' = [probe EXCEPT !.pc = "woven", !.out = links,
                                    !.stored = saved.pages[probe.slug]]
    /\ UNCHANGED <<db, lock, clock, deploy, calls, serial, batch>>

InitLinks ==
    /\ db = EmptyStore
    /\ lock = 0
    /\ clock = 0
    /\ serial = 0
    /\ deploy = [accepted |-> DeclaredKeywords, api_key |-> FALSE]
    /\ calls = [c \in Threads |-> NewCall]
    /\ batch = NoBatch
    /\ probe \in ProbeInputs

NextLinks == ProbeWeave

SpecLinks == InitLinks /\ [][NextLinks]_vars

Next ==
    \E c \in Threads :
        \/ DirectEnter(c)
        \/ EnsureRefreshHost(c)
        \/ EnsureRefreshLinks(c)
        \/ EnsureGenerate(c)
        \/ EnsureReload(c)
        \/ EnsureCommit(c)

Spec == Init /\ [][Next]_vars

NextBatch ==
    \/ BatchStart
    \/ AsCompletedBegin
    \/ BatchEmit
    \/ BatchFinish
    \/ \E c \in Threads :
        \/ JobStart(c)
        \/ JobEnter(c)
        \/ EnsureGenerate(c)
        \/ EnsureReload(c)
        \/ EnsureCommit(c)

SpecBatch == Init /\ [][NextBatch]_vars

(* The executor's workers and the generator are threads the scheduler keeps
   running: a step that stays possible is eventually taken.  Every
   generate_article call returns or raises, which is EnsureGenerate. *)
FairBatch ==
    /\ WF_vars(AsCompletedBegin)
    /\ WF_vars(BatchEmit)
    /\ WF_vars(BatchFinish)
    /\ \A c \in Threads :
        /\ WF_vars(JobStart(c))
        /\ WF_vars(JobEnter(c))
        /\ WF_vars(EnsureGenerate(c))
        /\ WF_vars(EnsureReload(c))
        /\ WF_vars(EnsureCommit(c))

SpecBatchFair == Init /\ [][NextBatch]_vars /\ FairBatch

----------------------------------------------------------------------------
(* The store a process finds at start: the database file outlives the process,
   so it is empty or holds pages generated earlier. *)

SeededStores ==
    {EmptyStore,
     ProbeStore(0, [i \in 1..9 |-> NoHost], TRUE, <<>>, <<>>),
     ProbeStore(1, [i \in 1..9 |-> HostA], TRUE, <<>>, <<>>)}

InitSeeded ==
    /\ db \in SeededStores
    /\ lock = 0
    /\ clock = 1
    /\ serial = 0
    /\ deploy \in [accepted : ContentRevisions, api_key : BOOLEAN]
    /\ calls = [c \in Threads |-> NewCall]
    /\ batch = NoBatch
    /\ probe = NoProbe

----------------------------------------------------------------------------
(* app_factory.py: show_page, the public page route.  The handler registers
   the request's host (update_data: load, mutate, save, without a lock), calls
   _ensure_page(slug, host=host) and then records the view. *)

ShowHosts == {HostB}

ShowArgs ==
    {[slug |-> s, topic |-> <<>>, hasKw |-> FALSE, keywords |-> <<>>,
      host |-> h, force |-> FALSE] : s \in Slugs, h \in ShowHosts}

(* lines 132-135: the host is appended unless a domain row has it *)
RegisterMutate(payload, hostname) ==
    IF \E i \in DOMAIN payload.domains : payload.domains[i] = hostname
    THEN payload
    ELSE [payload EXCEPT !.domains = Append(@, hostname)]

(* record_view: INSERT ... ON CONFLICT(slug) DO UPDATE SET views = views + 1 *)
record_view(store, slug) ==
    [store EXCEPT !.view_stats =
        [s \in DOMAIN store.view_stats \cup {slug} |->
            IF s = slug
            THEN (IF slug \in DOMAIN store.view_stats
                  THEN store.view_stats[slug] + 1 ELSE 1)
            ELSE store.view_stats[s]]]

ShowIdle(c) == calls[c].job = 0 /\ calls[c].pc \in {"new", "viewed", "raised"}

(* lines 270-271 and update_data's load_data and mutator, for a request out
   of `requests` *)
ShowBeginWith(c, requests) ==
    /\ ShowIdle(c)
    /\ serial < MaxCalls
    /\ \A d \in Threads : d < c => calls[d].pc # "new"
    /\ serial' = serial + 1
    /\ \E args \in requests :
          calls' = [calls EXCEPT ![c] =
              [NewCall EXCEPT !.pc = "register", !.args = args,
                              !.id = serial + 1,
                              !.data = RegisterMutate(load_data(db), args.host)]]
    /\ UNCHANGED <<db, lock, clock, deploy, batch, probe>>

ShowBegin(c) == ShowBeginWith(c, ShowArgs)

(* update_data's save_data *)
RegisterSave(c) ==
    /\ calls[c].pc = "register"
    /\ db' = save_data(db, calls[c].data)
    /\ calls' = [calls EXCEPT ![c] = [@ EXCEPT !.pc = "start", !.data = EmptyStore]]
    /\ UNCHANGED <<lock, clock, deploy, serial, batch, probe>>

(* line 272 *)
ShowEnsure(c) ==
    /\ calls[c].job = 0
    /\ calls[c].pc = "start"
    /\ EnsureEnterFrom(calls[c], c, calls[c].args)
    /\ UNCHANGED serial

(* line 273 *)
ShowRecordView(c) ==
    /\ calls[c].job = 0
    /\ calls[c].pc = "returned"
    /\ db' = record_view(db, calls[c].args.slug)
    /\ calls' = [calls EXCEPT ![c].pc = "viewed"]
    /\ UNCHANGED <<lock, clock, deploy, serial, batch, probe>>

NextViews ==
    \E c \in Threads :
        \/ ShowBegin(c)
        \/ RegisterSave(c)
        \/ ShowEnsure(c)
        \/ EnsureRefreshHost(c)
        \/ EnsureRefreshLinks(c)
        \/ EnsureGenerate(c)
        \/ EnsureReload(c)
        \/ EnsureCommit(c)
        \/ ShowRecordView(c)

SpecViews == InitSeeded /\ [][NextViews]_vars

(* show_page of one slug, requested on two hosts that are not registered yet *)
DomainArgs ==
    {[slug |-> "news", topic |-> <<>>, hasKw |-> FALSE, keywords |-> <<>>,
      host |-> h, force |-> FALSE] : h \in {HostB, HostC}}

DomainBegin(c) == ShowBeginWith(c, DomainArgs)

NextDomains ==
    \E c \in Threads :
        \/ DomainBegin(c)
        \/ RegisterSave(c)
        \/ ShowEnsure(c)
        \/ EnsureRefreshHost(c)
        \/ EnsureRefreshLinks(c)
        \/ EnsureGenerate(c)
        \/ EnsureReload(c)
        \/ EnsureCommit(c)
        \/ ShowRecordView(c)

SpecDomains == InitSeeded /\ [][NextDomains]_vars

----------------------------------------------------------------------------
(* app_factory.py: admin_pages and regenerate_page, the admin routes that
   force a generation, on a store that may already hold a generated page *)

AdminArgs ==
    {[slug |-> s, topic |-> <<"guide">>, hasKw |-> TRUE, keywords |-> <<"seo">>,
      host |-> HostB, force |-> TRUE] : s \in Slugs}
    \cup
    {[slug |-> s, topic |-> <<>>, hasKw |-> FALSE, keywords |-> <<>>,
      host |-> HostB, force |-> TRUE] : s \in Slugs}

(* lines 469-478 and line 488 *)
AdminEnter(c) ==
    /\ Idle(c)
    /\ serial < MaxCalls
    /\ \A d \in Threads : d < c => calls[d].pc # "new"
    /\ serial' = serial + 1
    /\ \E args \in AdminArgs :
          EnsureEnterFrom([NewCall EXCEPT !.id = serial + 1], c, args)

NextAdmin ==
    \E c \in Threads :
        \/ AdminEnter(c)
        \/ EnsureGenerate(c)
        \/ EnsureReload(c)
        \/ EnsureCommit(c)

SpecAdmin == InitSeeded /\ [][NextAdmin]_vars

----------------------------------------------------------------------------
(* app_factory.py: the number of jobs of a batch, for the streaming route
   (auto_build_stream) and the form route (auto_build) *)

(* lines 557-566: range(min(count, 30)) *)
AutoBuildCount(count) == Max(0, Min(count, MaxBatchCount))

CountInputs ==
    {[pc |-> "request", entry |-> e, count |-> n, jobs |-> <<>>] :
        e \in {"stream", "form"}, n \in (0 - MaxRequested)..MaxRequested}

(* the jobs list is built: one job per index *)
BuildJobs ==
    /\ probe.pc = "request"
    /\ LET n == IF probe.entry = "stream" THEN JobCount(probe.count)
                ELSE AutoBuildCount(probe.count)
       IN  probe' = [probe EXCEPT !.pc = "dispatched", !.jobs = [i \in 1..n |-> i]]
    /\ UNCHANGED <<db, lock, clock, deploy, calls, serial, batch>>

InitCount ==
    /\ db = EmptyStore
    /\ lock = 0
    /\ clock = 0
    /\ serial = 0
    /\ deploy = [accepted |-> DeclaredKeywords, api_key |-> FALSE]
    /\ calls = [c \in Threads |-> NewCall]
    /\ batch = NoBatch
    /\ probe \in CountInputs

NextCount == BuildJobs

SpecCount == InitCount /\ [][NextCount]_vars

----------------------------------------------------------------------------
(* content.py: generate_article on its own, for a topic, a keyword list, a
   host, a link list and a process with or without DEEPSEEK_API_KEY *)

SynthTopics == {<<>>, <<"guide">>, <<"pool 1001">>}
SynthKeywords == {<<>>, <<"seo">>, <<"seo", "links">>}
SynthLinks ==
    {<<>>, <<HomeLink(NoHost)>>, <<ExternalLink("u1"), PageLink("tips", HostB)>>}

SynthInputs ==
    {[pc |-> "synth_in", topic |-> t, keywords |-> k, host |-> HostA,
      links |-> l, api_key |-> a,
      response |-> [kind |-> "none", requested |-> FALSE,
                    payload |-> CHOOSE p \in Payloads : TRUE],
      article |-> NoArticle] :
        t \in SynthTopics, k \in SynthKeywords, l \in SynthLinks, a \in BOOLEAN}

Synthesize ==
    /\ probe.pc = "synth_in"
    /\ \E response \in _call_deepseek(probe.api_key) :
       \E article \in generate_article(probe.topic, probe.keywords, probe.host,
                                       probe.links, response) :
          probe' = [probe EXCEPT !.pc = "synth_out", !.response = response,
                                 !.article = article]
    /\ UNCHANGED <<db, lock, clock, deploy, calls, serial, batch>>

InitSynth ==
    /\ db = EmptyStore
    /\ lock = 0
    /\ clock = 0
    /\ serial = 0
    /\ deploy = [accepted |-> DeclaredKeywords, api_key |-> FALSE]
    /\ calls = [c \in Threads |-> NewCall]
    /\ batch = NoBatch
    /\ probe \in SynthInputs

NextSynth == Synthesize

SpecSynth == InitSynth /\ [][NextSynth]_vars

----------------------------------------------------------------------------
(* content.py: the handling of one backend response in generate_article
   (lines 292-343).  Raw text is a sequence of tokens: a code fence with its
   optional language tag, a brace, a well-formed list of JSON members, and
   text that is no JSON *)

MaxRawLen == 4

RawTokens == {"fence", "{", "}", "members", "text"}
RawTexts == UNION {[1..n -> RawTokens] : n \in 0..MaxRawLen}

(* the response envelopes: without "choices", with an empty "choices" list,
   with a first choice that carries the text *)
Envelopes ==
    {[choices |-> "missing", content |-> <<>>],
     [choices |-> "empty", content |-> <<>>]}
    \cup {[choices |-> "list", content |-> raw] : raw \in RawTexts}

Positions(text, token) == {i \in DOMAIN text : text[i] = token}
SetMin(S) == CHOOSE x \in S : \A y \in S : x <= y
SetMax(S) == CHOOSE x \in S : \A y \in S : x >= y

(* lines 51-53: the opening fence is removed, the text is cut at the next *)
Unfenced(text) ==
    IF Len(text) > 0 /\ text[1] = "fence"
    THEN LET rest == Tail(text)
             fences == Positions(rest, "fence")
         IN  IF fences = {} THEN rest ELSE SubSeq(rest, 1, SetMin(fences) - 1)
    ELSE text

(* lines 55-58: from the first "{" to the last "}" *)
Braced(text) ==
    IF Positions(text, "{") # {} /\ Positions(text, "}") # {}
    THEN SubSeq(text, SetMin(Positions(text, "{")), SetMax(Positions(text, "}")))
    ELSE text

NoText == <<"none">>

(* lines 48-63; None is NoText *)
_normalize_json_text(content) ==
    LET cleaned == Braced(Unfenced(content))
    IN  IF Len(cleaned) = 0 \/ cleaned[1] # "{" THEN NoText ELSE cleaned

(* json.loads on a text that starts with "{": an object, or JSONDecodeError *)
json_loads(text) ==
    IF text = <<"{", "}">>
    THEN [exc |-> "none", payload |-> [title |-> <<>>, intro |-> <<>>, rest |-> <<>>]]
    ELSE IF text = <<"{", "members", "}">>
    THEN [exc |-> "none",
          payload |-> [title |-> <<"ai-title">>, intro |-> <<"ai-intro">>,
                       rest |-> <<"ai-sections">>]]
    ELSE [exc |-> "JSONDecodeError", payload |-> CHOOSE p \in Payloads : TRUE]

(* line 293: response.get("choices", [{}])[0].get("message", {}).get("content", "") *)
ContentOf(envelope) ==
    IF envelope.choices = "empty"
    THEN [exc |-> "IndexError", content |-> <<>>]
    ELSE IF envelope.choices = "missing"
    THEN [exc |-> "none", content |-> <<>>]
    ELSE [exc |-> "none", content |-> envelope.content]

(* lines 293-301: what the try block makes of an envelope *)
Decoded(envelope) ==
    LET got == ContentOf(envelope)
        normalized == _normalize_json_text(got.content)
        loaded == json_loads(normalized)
        none == CHOOSE p \in Payloads : TRUE
    IN  IF got.exc # "none"
        THEN [kind |-> "no_choices", exc |-> got.exc, payload |-> none]
        ELSE IF normalized = NoText
        THEN [kind |-> IF envelope.choices = "missing" THEN "no_choices" ELSE "no_json",
              exc |-> "JSONDecodeError", payload |-> none]
        ELSE IF loaded.exc # "none"
        THEN [kind |-> "bad_json", exc |-> loaded.exc, payload |-> none]
        ELSE [kind |-> "object", exc |-> "none", payload |-> loaded.payload]

(* handlers that catch the exception of the decoder only *)
HandledDecodeOnly == {"JSONDecodeError"}

(* line 302 catches json.JSONDecodeError, line 335 every Exception *)
Handled == {"JSONDecodeError", "IndexError"}

ParseLinks == {<<>>, <<ExternalLink("u1"), PageLink("tips", HostB)>>}

ParseInputs ==
    {[pc |-> "parse_in", topic |-> <<"guide">>, keywords |-> <<"seo">>,
      host |-> HostA, links |-> l, envelope |-> e,
      response |-> [kind |-> "none", requested |-> FALSE,
                    payload |-> CHOOSE p \in Payloads : TRUE],
      raised |-> FALSE, article |-> NoArticle] :
        l \in ParseLinks, e \in Envelopes}

(* generate_article with a credential and a backend that answered *)
ParseResponse ==
    /\ probe.pc = "parse_in"
    /\ LET decoded == Decoded(probe.envelope)
           response == [kind |-> decoded.kind, requested |-> TRUE,
                        payload |-> decoded.payload]
       IN  IF decoded.exc \in Handled \cup {"none"}
           THEN \E article \in generate_article(probe.topic, probe.keywords,
                                                probe.host, probe.links, response) :
                   probe' = [probe EXCEPT !.pc = "parse_out", !.response = response,
                                          !.article = article]
           ELSE probe' = [probe EXCEPT !.pc = "parse_out", !.response = response,
                                       !.raised = TRUE]
    /\ UNCHANGED <<db, lock, clock, deploy, calls, serial, batch>>

InitParse ==
    /\ db = EmptyStore
    /\ lock = 0
    /\ clock = 0
    /\ serial = 0
    /\ deploy = [accepted |-> DeclaredKeywords, api_key |-> TRUE]
    /\ calls = [c \in Threads |-> NewCall]
    /\ batch = NoBatch
    /\ probe \in ParseInputs

NextParse == ParseResponse

SpecParse == InitParse /\ [][NextParse]_vars

----------------------------------------------------------------------------
(* content.py: two generate_article calls with the same topic and keywords,
   for two pages (two link lists), in a process without DEEPSEEK_API_KEY *)

PairInputs ==
    {[pc |-> "pair_in", topic |-> t, keywords |-> k, host |-> HostA,
      links |-> <<l1, l2>>, first |-> NoArticle, second |-> NoArticle] :
        t \in SynthTopics, k \in SynthKeywords, l1 \in SynthLinks, l2 \in SynthLinks}

SynthesizeFirst ==
    /\ probe.pc = "pair_in"
    /\ \E response \in _call_deepseek(FALSE) :
       \E article \in generate_article(probe.topic, probe.keywords, probe.host,
                                       probe.links[1], response) :
          probe' = [probe EXCEPT !.pc = "pair_mid", !.first = article]
    /\ UNCHANGED <<db, lock, clock, deploy, calls, serial, batch>>

SynthesizeSecond ==
    /\ probe.pc = "pair_mid"
    /\ \E response \in _call_deepseek(FALSE) :
       \E article \in generate_article(probe.topic, probe.keywords, probe.host,
                                       probe.links[2], response) :
          probe' = [probe EXCEPT !.pc = "pair_out", !.second = article]
    /\ UNCHANGED <<db, lock, clock, deploy, calls, serial, batch>>

InitPair ==
    /\ db = EmptyStore
    /\ lock = 0
    /\ clock = 0
    /\ serial = 0
    /\ deploy = [accepted |-> DeclaredKeywords, api_key |-> FALSE]
    /\ calls = [c \in Threads |-> NewCall]
    /\ batch = NoBatch
    /\ probe \in PairInputs

NextPair == SynthesizeFirst \/ SynthesizeSecond

SpecPair == InitPair /\ [][NextPair]_vars

----------------------------------------------------------------------------
(* content.py and _ensure_page lines 219-224: the topic and the title a
   generated page gets for a placeholder topic *)

TopicSeeds ==
    {<<"pool-4821">>, <<"guide">>} \cup {SlugWords(s) : s \in PoolSlugs}
TopicKeywords == {<<>>, <<"seo">>, <<"seo", "pool-4821">>, <<"pool-4821", "seo">>}

(* backend answers whose title is absent, clean, or carries a placeholder *)
TopicResponses ==
    _call_deepseek(FALSE)
    \cup {[kind |-> "error", requested |-> TRUE, payload |-> CHOOSE p \in Payloads : TRUE]}
    \cup {[kind |-> "object", requested |-> TRUE,
           payload |-> [title |-> t, intro |-> <<"ai-intro">>,
                        rest |-> <<"ai-sections">>]] :
            t \in {<<>>, <<"ai-title">>, <<"about", "pool-4821">>}}

TopicInputs ==
    {[pc |-> "topic_in", slug |-> "news", topic |-> t, keywords |-> k,
      host |-> HostA, links |-> <<>>, response |-> r,
      page |-> BarePage("news")] :
        t \in TopicSeeds, k \in TopicKeywords, r \in TopicResponses}

GenerateAndMerge ==
    /\ probe.pc = "topic_in"
    /\ \E article \in generate_article(probe.topic, probe.keywords, probe.host,
                                       probe.links, probe.response) :
          probe' = [probe EXCEPT !.pc = "topic_out",
                                 !.page = MergedPage(probe.page, article, probe.links,
                                                     probe.host, probe.keywords, 1)]
    /\ UNCHANGED <<db, lock, clock, deploy, calls, serial, batch>>

InitTopic ==
    /\ db = EmptyStore
    /\ lock = 0
    /\ clock = 0
    /\ serial = 0
    /\ deploy = [accepted |-> DeclaredKeywords \cup {"log_to_terminal"}, api_key |-> TRUE]
    /\ calls = [c \in Threads |-> NewCall]
    /\ batch = NoBatch
    /\ probe \in TopicInputs

NextTopic == GenerateAndMerge

SpecTopic == InitTopic /\ [][NextTopic]_vars

----------------------------------------------------------------------------
(* links.py: build_link_set for every `desired` up to the default, over an
   index of pages on mixed hosts and external pools of one to four links *)

MaxReservePages == 4

ReserveExternals == {<<"u1">>, <<"u1", "u2">>, <<"u1", "u2", "u3", "u4">>}

ReserveInputs ==
    {[pc |-> "reserve_in", slug |-> "news", desired |-> d,
      data |-> ProbeStore(k, [i \in 1..9 |-> IF i % 2 = 1 THEN HostC ELSE HostB],
                          self, externals, <<>>),
      out |-> <<>>] :
        d \in 1..Desired, k \in 0..MaxReservePages, self \in BOOLEAN,
        externals \in ReserveExternals \cup {<<>>}}

ReserveWeave ==
    /\ probe.pc = "reserve_in"
    /\ \E links \in build_link_set(probe.slug, probe.data, probe.desired, NoHost) :
          probe' = [probe EXCEPT !.pc = "reserve_out", !.out = links]
    /\ UNCHANGED <<db, lock, clock, deploy, calls, serial, batch>>

InitReserve ==
    /\ db = EmptyStore
    /\ lock = 0
    /\ clock = 0
    /\ serial = 0
    /\ deploy = [accepted |-> DeclaredKeywords, api_key |-> FALSE]
    /\ calls = [c \in Threads |-> NewCall]
    /\ batch = NoBatch
    /\ probe \in ReserveInputs

NextReserve == ReserveWeave

SpecReserve == InitReserve /\ [][NextReserve]_vars

----------------------------------------------------------------------------
(* app_factory.py lines 189-190 and 533-539, content.py lines 266-267: the
   word bounds.  None and 0 are both 0: python's `or` skips either *)

WordFloor == 200
WordMargin == 200
DefaultMinWords == 800
DefaultMaxGap == 400
MaxWordFloor == 400
DefaultMaxWords == 1500

WordValues == {-100, 0, 1, 199, 200, 201, 399, 400, 401, 600, 800, 1000, 1500}
EnvWords == {0, 100, 1000}

(* a or b on integers *)
Or(a, b) == IF a # 0 THEN a ELSE b

(* line 189 *)
article_min(min_words, settings) ==
    Max(Or(Or(min_words, settings.article_min_words), DefaultMinWords), WordFloor)

(* an upper bound without the correction *)
article_max_uncorrected(max_words, settings, lower) ==
    Or(Or(max_words, settings.article_max_words), lower + DefaultMaxGap)

(* line 190 *)
article_max(max_words, settings, lower) ==
    Max(Or(Or(max_words, settings.article_max_words), lower + DefaultMaxGap),
        lower + WordMargin)

(* content.py line 266 *)
SynthMinWords(min_words, min_words_env) ==
    Max(Or(Or(min_words, min_words_env), DefaultMinWords), WordFloor)

(* content.py line 267 *)
SynthMaxWords(max_words, max_words_env, lower) ==
    Max(Or(Or(max_words, max_words_env), lower + DefaultMaxGap), lower + WordMargin)

(* a form field: the text of an integer, or the empty text *)
FormFields ==
    {[blank |-> TRUE, value |-> 0]}
    \cup {[blank |-> FALSE, value |-> v] : v \in WordValues}

(* int(field or default): only the empty text is skipped, "0" is not *)
FormInt(field, default) == IF field.blank THEN default ELSE field.value

(* lines 533-539: the two settings update_settings stores for a form *)
StoredWordSettings(form_min, form_max) ==
    LET lower == Max(WordFloor, FormInt(form_min, DefaultMinWords))
        upper == Max(MaxWordFloor, FormInt(form_max, DefaultMaxWords))
    IN  [article_min_words |-> lower,
         article_max_words |-> IF upper <= lower THEN lower + WordMargin ELSE upper]

DefaultWordSettings ==
    [article_min_words |-> DefaultMinWords, article_max_words |-> DefaultMaxWords]

NoWords == [min |-> 0, max |-> 0]
NoForm == [min |-> [blank |-> TRUE, value |-> 0], max |-> [blank |-> TRUE, value |-> 0]]

(* a settings form to submit, or a settings table as found in the store *)
WordInputs ==
    {[pc |-> "form_in", form |-> [min |-> a, max |-> b],
      settings |-> DefaultWordSettings, updated |-> FALSE,
      override |-> NoWords, passed |-> NoWords, used |-> NoWords] :
        a \in FormFields, b \in FormFields}
    \cup
    {[pc |-> "stored", form |-> NoForm,
      settings |-> [article_min_words |-> a, article_max_words |-> b],
      updated |-> FALSE,
      override |-> NoWords, passed |-> NoWords, used |-> NoWords] :
        a \in WordValues, b \in WordValues}

UpdateSettings ==
    /\ probe.pc = "form_in"
    /\ probe' = [probe EXCEPT !.pc = "stored", !.updated = TRUE,
                              !.settings = StoredWordSettings(probe.form.min,
                                                              probe.form.max)]
    /\ UNCHANGED <<db, lock, clock, deploy, calls, serial, batch>>

(* _ensure_page computes the bounds and generate_article receives them *)
EnsureWordBounds ==
    /\ probe.pc = "stored"
    /\ \E min_words \in WordValues, max_words \in WordValues,
          min_words_env \in EnvWords, max_words_env \in EnvWords :
          LET lower == article_min(min_words, probe.settings)
              upper == article_max(max_words, probe.settings, lower)
              used_min == SynthMinWords(lower, min_words_env)
              used_max == SynthMaxWords(upper, max_words_env, used_min)
          IN  probe' = [probe EXCEPT !.pc = "words_out",
                                     !.override = [min |-> min_words, max |-> max_words],
                                     !.passed = [min |-> lower, max |-> upper],
                                     !.used = [min |-> used_min, max |-> used_max]]
    /\ UNCHANGED <<db, lock, clock, deploy, calls, serial, batch>>

InitWords ==
    /\ db = EmptyStore
    /\ lock = 0
    /\ clock = 0
    /\ serial = 0
    /\ deploy = [accepted |-> DeclaredKeywords \cup {"log_to_terminal"}, api_key |-> FALSE]
    /\ calls = [c \in Threads |-> NewCall]
    /\ batch = NoBatch
    /\ probe \in WordInputs

NextWords == UpdateSettings \/ EnsureWordBounds

SpecWords == InitWords /\ [][NextWords]_vars

----------------------------------------------------------------------------
(* app_factory.py lines 46-48: slugify.  A string is the sequence of its
   characters *)

MaxSlugLen == 4

PageNumberMin == 1000
PageNumberMax == 9999

DigitChars == <<"0", "1", "2", "3", "4", "5", "6", "7", "8", "9">>
LowerChars == {"a", "b", "p", "g", "e"}
InputChars == {"a", "B", "7", "-", " ", "!"}
InputTexts == UNION {[1..n -> InputChars] : n \in 0..MaxSlugLen}

(* str.lower() *)
Lower(text) ==
    [i \in DOMAIN text |->
        IF text[i] = "A" THEN "a" ELSE IF text[i] = "B" THEN "b" ELSE text[i]]

(* [a-z0-9] *)
IsAlnum(ch) == ch \in LowerChars \cup Range(DigitChars)

(* the entries of s at the indices in keep, in order *)
Pick(s, keep) ==
    LET idx(k) == CHOOSE i \in keep : Cardinality({j \in keep : j < i}) = k - 1
    IN  [k \in 1..Cardinality(keep) |-> s[idx(k)]]

(* a substitution that replaces every character on its own *)
SubEach(text) ==
    [i \in DOMAIN text |-> IF IsAlnum(text[i]) THEN text[i] ELSE "-"]

(* SLUG_PATTERN.sub("-", text): every run of other characters becomes one "-" *)
Sub(text) ==
    Pick([i \in DOMAIN text |-> IF IsAlnum(text[i]) THEN text[i] ELSE "-"],
         {i \in DOMAIN text : IsAlnum(text[i]) \/ i = 1 \/ IsAlnum(text[i - 1])})

(* str.strip("-") *)
Strip(text) ==
    LET inner == {i \in DOMAIN text : text[i] # "-"}
    IN  IF inner = {} THEN <<>>
        ELSE SubSeq(text, SetMin(inner), SetMax(inner))

Digits(n) ==
    <<DigitChars[((n \div 1000) % 10) + 1], DigitChars[((n \div 100) % 10) + 1],
      DigitChars[((n \div 10) % 10) + 1], DigitChars[(n % 10) + 1]>>

(* the values of random.randint(1000, 9999) the model draws *)
PageNumbers == {PageNumberMin, 4821, PageNumberMax}

(* lines 46-48; n is the number random.randint returns *)
slugify(text, n) ==
    LET slug == Strip(Sub(Lower(text)))
    IN  IF slug # <<>> THEN slug ELSE <<"p", "a", "g", "e", "-">> \o Digits(n)

SlugInputs ==
    {[pc |-> "slug_in", text |-> t, slug |-> <<>>, again |-> <<>>] : t \in InputTexts}

Slugify ==
    /\ probe.pc = "slug_in"
    /\ \E n \in PageNumbers :
          probe' = [probe EXCEPT !.pc = "slug_out", !.slug = slugify(probe.text, n)]
    /\ UNCHANGED <<db, lock, clock, deploy, calls, serial, batch>>

(* the slug is given to slugify again *)
SlugifyAgain ==
    /\ probe.pc = "slug_out"
    /\ \E n \in PageNumbers :
          probe' = [probe EXCEPT !.pc = "slug_again", !.again = slugify(probe.slug, n)]
    /\ UNCHANGED <<db, lock, clock, deploy, calls, serial, batch>>

InitSlug ==
    /\ db = EmptyStore
    /\ lock = 0
    /\ clock = 0
    /\ serial = 0
    /\ deploy = [accepted |-> DeclaredKeywords, api_key |-> FALSE]
    /\ calls = [c \in Threads |-> NewCall]
    /\ batch = NoBatch
    /\ probe \in SlugInputs

NextSlug == Slugify \/ SlugifyAgain

SpecSlug == InitSlug /\ [][NextSlug]_vars

----------------------------------------------------------------------------
(* _ensure_page on a store with pages on several hosts and an external link:
   the page "news" is requested on its own host *)

HostedStore ==
    ProbeStore(4, [i \in 1..9 |-> IF i % 2 = 1 THEN HostC ELSE HostB], TRUE,
               <<"u1">>, <<>>)

HostedArgs ==
    {[slug |-> "news", topic |-> topic, hasKw |-> FALSE, keywords |-> <<>>,
      host |-> HostA, force |-> FALSE] : topic \in {<<>>, <<"fresh">>}}

MaxHostedCalls == 2

(* line 272: _ensure_page(slug, host=host) *)
HostedEnter(c) ==
    /\ Idle(c)
    /\ serial < MaxHostedCalls
    /\ \A d \in Threads : d < c => calls[d].pc # "new"
    /\ serial' = serial + 1
    /\ \E args \in HostedArgs :
          EnsureEnterFrom([NewCall EXCEPT !.id = serial + 1], c, args)

InitHosted ==
    /\ db = HostedStore
    /\ lock = 0
    /\ clock = 1
    /\ serial = 0
    /\ deploy \in [accepted : ContentRevisions, api_key : BOOLEAN]
    /\ calls = [c \in Threads |-> NewCall]
    /\ batch = NoBatch
    /\ probe = NoProbe

NextHosted ==
    \E c \in Threads :
        \/ HostedEnter(c)
        \/ EnsureRefreshHost(c)
        \/ EnsureRefreshLinks(c)

SpecHosted == InitHosted /\ [][NextHosted]_vars

----------------------------------------------------------------------------
(* app_factory.py: delete_page next to the admin route that regenerates a
   page.  delete_page is update_data (load, mutate, save) without a lock; the
   probe variable remembers the last completed deletion and the Ensure calls
   that stood between their two locked sections from its load to its save. *)

RegenerateArgs ==
    {[slug |-> "news", topic |-> <<>>, hasKw |-> FALSE, keywords |-> <<>>,
      host |-> HostB, force |-> TRUE]}

(* line 488: _ensure_page(slug, host=..., force=True) *)
RegenerateEnter(c) ==
    /\ Idle(c)
    /\ serial < MaxCalls
    /\ \A d \in Threads : d < c => calls[d].pc # "new"
    /\ serial' = serial + 1
    /\ \E args \in RegenerateArgs :
          EnsureEnterFrom([NewCall EXCEPT !.id = serial + 1], c, args)

(* lines 499-503: _mutate pops the slug from pages and view_stats *)
DeleteMutate(data, slug) ==
    [data EXCEPT
        !.pages = [s \in DOMAIN data.pages \ {slug} |-> data.pages[s]],
        !.view_stats = [s \in DOMAIN data.view_stats \ {slug} |->
                            data.view_stats[s]]]

(* the calls for the slug that have left the first locked section and not
   yet entered the second *)
BetweenSections(slug) ==
    {calls[d].id : d \in {d \in Threads : /\ calls[d].pc \in {"generate", "reload"}
                                          /\ calls[d].args.slug = slug}}

(* line 505, storage.py lines 301-302: update_data loads and mutates *)
DeleteBegin(c) ==
    /\ Idle(c)
    /\ serial < MaxCalls
    /\ \A d \in Threads : d < c => calls[d].pc # "new"
    /\ serial' = serial + 1
    /\ \E args \in RegenerateArgs :
          calls' = [calls EXCEPT ![c] =
              [NewCall EXCEPT !.pc = "delete", !.args = args,
                              !.id = serial + 1,
                              !.peers = BetweenSections(args.slug),
                              !.data = DeleteMutate(load_data(db), args.slug)]]
    /\ UNCHANGED <<db, lock, clock, deploy, batch, probe>>

Deleted(slug, between) == [pc |-> "deleted", slug |-> slug, between |-> between]

(* storage.py line 303: update_data saves; the handler returns *)
DeleteSave(c) ==
    /\ calls[c].pc = "delete"
    /\ db' = save_data(db, calls[c].data)
    /\ calls' = [calls EXCEPT ![c] =
           [@ EXCEPT !.pc = "returned", !.data = EmptyStore]]
    /\ probe' = Deleted(calls[c].args.slug,
                        calls[c].peers \cap BetweenSections(calls[c].args.slug))
    /\ UNCHANGED <<lock, clock, deploy, serial, batch>>

NextDelete ==
    \E c \in Threads :
        \/ RegenerateEnter(c)
        \/ EnsureGenerate(c)
        \/ EnsureReload(c)
        \/ EnsureCommit(c)
        \/ DeleteBegin(c)
        \/ DeleteSave(c)

(* the page to delete exists *)
InitDelete ==
    /\ InitSeeded
    /\ "news" \in DOMAIN db.pages

SpecDelete == InitDelete /\ [][NextDelete]_vars

----------------------------------------------------------------------------
(* Properties *)

Started(t) == calls[t].pc # "new"
Returned(t) == calls[t].pc = "returned"
SameSlug(t, u) == calls[t].args.slug = calls[u].args.slug

(* one of the two entered while the other's generation was in flight *)
Concurrent(t, u) ==
    /\ t # u /\ Started(t) /\ Started(u)
    /\ calls[t].id \in calls[u].peers \/ calls[u].id \in calls[t].peers

(* two unforced invocations for one slug that neither found persisted,
   running concurrently *)
ColdPair(t, u) ==
    /\ Concurrent(t, u) /\ SameSlug(t, u)
    /\ ~calls[t].args.force /\ ~calls[u].args.force
    /\ ~calls[t].hadPage /\ ~calls[u].hadPage

(* C1: two concurrent unforced Ensure calls for a slug that was never
   persisted call generate_article once between them. *)
C1_SingleFlight ==
    \A t, u \in Threads :
        ColdPair(t, u) => calls[t].invoked + calls[u].invoked <= 1

(* C2: while a generation for a slug is in flight, no other Ensure call for
   that slug gets past the needs-generation decision. *)
C2_SameKeyBlocks ==
    \A t \in Threads : Started(t) => calls[t].peers = {}

(* C3: two concurrent unforced Ensure calls for one new slug return the same
   body, and that body is the one persisted once both have returned. *)
C3_SecondObservesFirst ==
    \A t, u \in Threads :
        (ColdPair(t, u) /\ Returned(t) /\ Returned(u)) =>
            /\ calls[t].result.body = calls[u].result.body
            /\ calls[t].args.slug \in DOMAIN db.pages
            /\ db.pages[calls[t].args.slug].body = calls[t].result.body

(* C4: Ensure never raises, whatever the slug, the overrides and the
   backend's outcome. *)
C4_NeverRaises ==
    \A t \in Threads : calls[t].pc # "raised"

JobThreads == {t \in Threads : calls[t].job # 0}
Resolved_(t) == calls[t].pc \in {"returned", "raised"}
EventsOf(t) == {i \in DOMAIN batch.events : batch.events[i].job = t}

C5_Counts ==
    /\ Len(batch.events) <= Len(batch.jobs)
    /\ \A t \in JobThreads : Cardinality(EventsOf(t)) <= 1
    /\ \A i \in DOMAIN batch.events : Resolved_(batch.events[i].job)
    /\ batch.closed <= 1
    /\ batch.closed = 1 <=> batch.pc = "done"
    /\ batch.pc = "done" =>
          /\ Len(batch.events) = Len(batch.jobs)
          /\ \A t \in JobThreads : Cardinality(EventsOf(t)) = 1 /\ Resolved_(t)

(* C5: a batch of N jobs sends exactly N progress events, one per job whether
   its Ensure returned or raised, then exactly one done event, sent after all
   jobs have resolved; nothing is sent after done. *)
C5_BatchCompleteness ==
    /\ []C5_Counts
    /\ [][batch.closed = 1 => batch' = batch]_vars

C5_Witness ==
    /\ batch.pc = "done"
    /\ Len(batch.jobs) = 2
    /\ calls[1].args.slug = calls[2].args.slug
    /\ calls[1].pc = "raised"

Degraded(e) ==
    e.title = <<e.slug>> /\ e.preview = FailedMarker

(* C6: when one job's Ensure raises, that job's event is the degraded one
   (title = slug, preview = the failure marker) and every other job runs to
   completion, has its page persisted and gets a normal event. *)
C6_FailureIsolation ==
    batch.pc = "done" =>
        \A t \in JobThreads :
            calls[t].pc = "raised" =>
                /\ \A i \in EventsOf(t) : Degraded(batch.events[i])
                /\ \A u \in JobThreads \ {t} :
                      /\ calls[u].pc = "returned"
                      /\ calls[u].args.slug \in DOMAIN db.pages
                      /\ \A i \in EventsOf(u) : ~Degraded(batch.events[i])

Warm(t) == ~calls[t].args.force /\ calls[t].hadPage /\ HasBody(calls[t].seen)

(* C7: an unforced Ensure of a slug whose page has a body returns the body
   that was persisted before the call, so two such calls in a row with
   nothing changed in between return the same body. *)
C7_Idempotent ==
    \A t \in Threads :
        (Returned(t) /\ Warm(t)) => calls[t].result.body = calls[t].seen.body

C7_Witness ==
    \E t, u \in Threads :
        /\ t # u /\ Returned(t) /\ Returned(u) /\ Warm(t) /\ Warm(u)
        /\ SameSlug(t, u)
        /\ calls[t].id < calls[u].id
        /\ calls[t].seen.body = calls[u].seen.body
        /\ calls[t].result.body = calls[u].result.body

Needed(t) == calls[t].args.force \/ ~HasBody(calls[t].seen)

(* C8: generate_article is called by an Ensure call iff force is set or the
   loaded page has no body, and then exactly once. *)
C8_GenerationIff ==
    \A t \in Threads :
        /\ calls[t].invoked <= 1
        /\ calls[t].pc \in {"refresh_host", "refresh_links"} =>
              ~Needed(t) /\ calls[t].invoked = 0
        /\ calls[t].pc = "generate" => Needed(t)
        /\ calls[t].pc \in {"commit", "save", "returned", "raised"} =>
              calls[t].invoked = (IF Needed(t) THEN 1 ELSE 0)

C8_Witness ==
    \E t, u \in Threads :
        /\ Returned(t) /\ Warm(t) /\ calls[t].invoked = 0
        /\ Returned(u) /\ calls[u].args.force /\ calls[u].invoked = 1

(* C9: a forced Ensure of an existing page that returns leaves the persisted
   updated_at later than it was when the call began. *)
C9_ForcedRegeneration ==
    [][\A t \in Threads :
          (/\ calls[t].pc = "save" /\ calls'[t].pc = "returned"
           /\ calls[t].args.force /\ calls[t].hadPage) =>
              /\ calls[t].args.slug \in DOMAIN db'.pages
              /\ db'.pages[calls[t].args.slug].updated_at >
                    calls[t].seen.updated_at]_vars

C9_Witness ==
    \E t \in Threads :
        /\ Returned(t) /\ calls[t].args.force /\ calls[t].hadPage
        /\ calls[t].seen.updated_at > 0
        /\ calls[t].args.slug \in DOMAIN db.pages
        /\ db.pages[calls[t].args.slug].updated_at > calls[t].seen.updated_at

NoSelfLink(links, slug) ==
    \A i \in DOMAIN links : links[i].kind = "page" => links[i].target # slug

(* C10: the list build_link_set returns, and the links of the page written
   from it, hold at most `desired` entries and no link to the page itself. *)
C10_LinkBound ==
    probe.pc = "woven" =>
        /\ Len(probe.out) <= Desired
        /\ NoSelfLink(probe.out, probe.slug)
        /\ Len(probe.stored.links) <= Desired
        /\ NoSelfLink(probe.stored.links, probe.slug)

C10_Witness ==
    /\ probe.pc = "woven"
    /\ probe.slug \in DOMAIN probe.data.pages
    /\ Cardinality(DOMAIN probe.data.pages) > Desired
    /\ Len(probe.data.external_links) = 1
    /\ Len(probe.stored.links) = Desired

(* the candidate universe of a slug: the external links and the other pages *)
UniverseEmpty(slug, data) ==
    /\ Len(data.external_links) = 0
    /\ DOMAIN data.pages \ {slug} = {}

IsHomeOnly(links) == Len(links) = 1 /\ links[1].kind = "home"

(* C11: when there is no external link and no page other than the one being
   ensured, the link set woven for it is exactly one home link, on the first
   Ensure of the slug and on every later one. *)
C11_HomeLink ==
    (probe.pc = "woven" /\ UniverseEmpty(probe.slug, probe.data)) =>
        /\ IsHomeOnly(probe.out)
        /\ IsHomeOnly(probe.stored.links)

(* C12: no step lowers or removes the persisted view count of a slug, whatever
   the interleaving of record_view with the snapshot saves. *)
C12_ViewMonotone ==
    [][\A s \in DOMAIN db.view_stats :
          /\ s \in DOMAIN db'.view_stats
          /\ db'.view_stats[s] >= db.view_stats[s]]_vars

(* C13: an Ensure call whose generate_article call raises has written nothing:
   no step of the call up to and including the raise changes the store, so no
   page is created or modified and its overrides are not persisted. *)
C13_NoHalfWritten ==
    [][\A t \in Threads :
          (calls'[t] # calls[t] /\ calls'[t].pc \in {"generate", "raised"}) =>
              db' = db]_vars

C13_Witness ==
    \E t \in Threads :
        /\ calls[t].pc = "raised"
        /\ calls[t].args.hasKw /\ calls[t].hadPage
        /\ calls[t].args.slug \in DOMAIN db.pages
        /\ db.pages[calls[t].args.slug] = calls[t].seen
        /\ db.pages[calls[t].args.slug].keywords # calls[t].args.keywords

(* C14: every page an Ensure call returns, and every page in the store, has a
   non-empty body. *)
C14_BodyNonEmpty ==
    /\ \A t \in Threads : Returned(t) => HasBody(calls[t].result)
    /\ \A s \in DOMAIN db.pages : HasBody(db.pages[s])

SameContent(p, q) ==
    /\ p.body = q.body /\ p.title = q.title /\ p.excerpt = q.excerpt
    /\ p.generator = q.generator /\ p.model = q.model

Done(t) == calls[t].pc \in {"returned", "viewed"}

(* C15: an unforced Ensure of a page that has a body writes the host when the
   given host differs from the stored one, writes the recomputed links when
   they differ from the stored ones, writes nothing otherwise, and what it
   writes and returns carries the body, title, excerpt, generator and model
   it loaded. *)
C15_RefreshOnly ==
    [][\A t \in Threads :
          LET me == calls[t]
              slug == me.args.slug
              hostDiffers == me.args.host # NoHost /\ me.args.host # me.page.host
              linksDiffer == me.page.links # me.links
          IN  /\ (me.pc = "refresh_host" /\ calls'[t].pc = "refresh_links") =>
                    IF hostDiffers
                    THEN /\ slug \in DOMAIN db'.pages
                         /\ db'.pages[slug].host = me.args.host
                         /\ SameContent(db'.pages[slug], me.seen)
                    ELSE db' = db
              /\ (me.pc = "refresh_links" /\ calls'[t].pc = "returned") =>
                    /\ SameContent(calls'[t].result, me.seen)
                    /\ IF linksDiffer
                       THEN /\ slug \in DOMAIN db'.pages
                            /\ db'.pages[slug].links = me.links
                            /\ SameContent(db'.pages[slug], me.seen)
                       ELSE db' = db]_vars

C15_Witness ==
    \E t, u \in Threads :
        /\ t # u /\ Done(t) /\ Done(u) /\ Warm(t) /\ Warm(u) /\ SameSlug(t, u)
        /\ calls[t].result.host = HostB /\ calls[t].seen.host = HostA
        /\ calls[t].result.links # calls[t].seen.links
        /\ calls[u].result = calls[u].seen
        /\ db.pages[calls[u].args.slug] = calls[u].result

(* C16: during a batch never more than max(1, thread_count) of its Ensure
   calls are executing, thread_count being the configured ai_thread_count. *)
C16_WorkerBound ==
    Cardinality({t \in Threads : Executing(t)}) <= Max(1, batch.thread_count)

(* C17: with fair scheduling, every batch that was started sends its done
   event: the Ensure calls of a batch never block each other for ever on
   PAGE_LOCK. *)
C17_BatchTerminates == (batch.pc = "submitted") ~> (batch.pc = "done")

C17_Witness ==
    /\ batch.pc = "done"
    /\ Len(batch.jobs) = 2
    /\ \A t \in JobThreads : Returned(t)
    /\ \E t \in JobThreads : calls[t].peers # {}

FinishedAt(t) == CHOOSE i \in DOMAIN batch.finished : batch.finished[i] = t

(* C18: progress events come in the order in which the jobs completed, and
   the k-th event carries progress k and total = the number of jobs. *)
C18_CompletionOrder ==
    /\ \A i, j \in DOMAIN batch.events :
          i < j => FinishedAt(batch.events[i].job) < FinishedAt(batch.events[j].job)
    /\ \A k \in DOMAIN batch.events :
          /\ batch.events[k].progress = k
          /\ batch.events[k].total = Len(batch.jobs)

(* C19: whatever count is requested, a batch dispatches at most 30 jobs, from
   the streaming route and from the form route. *)
C19_JobClamp ==
    probe.pc = "dispatched" => Len(probe.jobs) <= MaxBatchCount

C19_Witness ==
    /\ probe.pc = "dispatched"
    /\ probe.entry = "stream"
    /\ probe.count > MaxBatchCount
    /\ Len(probe.jobs) = MaxBatchCount

(* C20: without a backend credential generate_article issues no request to
   the backend and returns an article whose generator is "local". *)
C20_ConfigAbsent ==
    (probe.pc = "synth_out" /\ ~probe.api_key) =>
        /\ ~probe.response.requested
        /\ probe.article.generator = "local"

C20_Witness ==
    /\ probe.pc = "synth_out"
    /\ ~probe.api_key
    /\ probe.topic # <<>> /\ Len(probe.keywords) = 2 /\ Len(probe.links) = 2
    /\ probe.article.generator = "local"
    /\ HasBody(probe.article)

ParseFailed ==
    \/ probe.envelope.choices # "list"
    \/ _normalize_json_text(probe.envelope.content) = NoText
    \/ json_loads(_normalize_json_text(probe.envelope.content)).exc # "none"

(* C21: a backend response that cannot be parsed (no braces, unbalanced
   braces, invalid JSON between the first "{" and the last "}", fenced or
   not, "choices" missing or empty) never raises out of generate_article: the
   fallback article, generator "local", is returned. *)
C21_ParseFailureFallsBack ==
    (probe.pc = "parse_out" /\ ParseFailed) =>
        /\ ~probe.raised
        /\ probe.article.generator = "local"
        /\ HasBody(probe.article)

C21_Witness ==
    /\ probe.pc = "parse_out"
    /\ probe.envelope.choices = "list"
    /\ probe.envelope.content = <<"fence", "{", "text", "}">>
    /\ probe.response.kind = "bad_json"
    /\ probe.article.generator = "local"

LacksFields(payload) ==
    payload.title = <<>> \/ payload.intro = <<>> \/ payload.rest = <<>>

(* C22: a backend text that parses as a JSON object but lacks fields of
   {title, intro, sections, bullets, closing}, such as the empty object,
   gives the fallback article, generator "local", and no article assembled
   from the partial object. *)
C22_DeviationFallsBack ==
    (probe.pc = "parse_out" /\ probe.response.kind = "object"
        /\ LacksFields(probe.response.payload)) =>
        probe.article.generator = "local"

(* C23: without a backend credential, two generate_article calls with the
   same topic and keywords return articles with the same fields, the same
   title and the same excerpt, both with generator "local"; for every topic,
   the empty one and the placeholder-like ones included. *)
C23_FallbackDeterminism ==
    probe.pc = "pair_out" =>
        /\ DOMAIN probe.first = DOMAIN probe.second
        /\ probe.first.title = probe.second.title
        /\ probe.first.excerpt = probe.second.excerpt
        /\ probe.first.generator = "local"
        /\ probe.second.generator = "local"

(* C24: for a topic of the form pool-<digits>, given or derived from the slug
   of a batch job, neither the topic nor the title stored on the generated
   page contains pool-<digits>, with the backend and with the fallback, for
   every keyword list, one whose first keyword is a placeholder included. *)
C24_PlaceholderSanitized ==
    (probe.pc = "topic_out" /\ ContainsPool(probe.topic)) =>
        /\ ~ContainsPool(probe.page.topic)
        /\ ~ContainsPool(probe.page.title)

(* the same for keyword lists whose first keyword is no placeholder *)
SanitizedWithCleanKeywords ==
    (probe.pc = "topic_out" /\ ContainsPool(probe.topic)
        /\ (probe.keywords = <<>> \/ ~ContainsPool(<<probe.keywords[1]>>))) =>
        /\ ~ContainsPool(probe.page.topic)
        /\ ~ContainsPool(probe.page.title)

LinkedPages(links) == {links[i].target : i \in {j \in DOMAIN links : links[j].kind = "page"}}

OtherPages(slug, data) == DOMAIN data.pages \ {slug}

SameHostPages(slug, data, current_host) ==
    {k \in OtherPages(slug, data) :
        _normalize_host(data.pages[k].host) = _normalize_host(current_host)}

(* C25: the list build_link_set returns links a page of the same normalized
   host as the current host only when every other page of a different
   normalized host is linked too; hosts are compared by their last two
   labels, so a page on b.example.com is same-host for a.example.com. *)
C25_CrossHostFirst ==
    probe.pc = "woven" =>
        LET same == SameHostPages(probe.slug, probe.data, probe.current_host)
            cross == OtherPages(probe.slug, probe.data) \ same
            linked == LinkedPages(probe.out)
        IN  (linked \cap same # {}) => cross \subseteq linked

C25_Witness ==
    /\ probe.pc = "woven"
    /\ probe.current_host = HostA
    /\ \E k \in LinkedPages(probe.out) : probe.data.pages[k].host = HostB
    /\ \E k \in LinkedPages(probe.out) : probe.data.pages[k].host = HostC
    /\ \E k \in OtherPages(probe.slug, probe.data) : k \notin LinkedPages(probe.out)

Repeats(links) == \E i, j \in DOMAIN links : i # j /\ links[i] = links[j]

(* C26: the list build_link_set returns never holds two entries with the same
   url, whatever the size of the external pool, one entry included; an
   external link is repeated only when the pool is smaller than the number of
   reserved slots. *)
C26_Deduplicated ==
    probe.pc = "woven" =>
        /\ ~Repeats(probe.out)
        /\ Repeats(probe.out) =>
              Len(probe.data.external_links) < Desired \div 2

ExternalEntries(links) == {i \in DOMAIN links : links[i].kind = "external"}

(* C27: with a non-empty external pool and desired >= 2, exactly
   floor(desired / 2) entries of the list build_link_set returns come from
   the external pool, whatever the size of the pool, each is marked external,
   and the other slots go to the pages as far as there are any. *)
C27_ExternalReservation ==
    (probe.pc = "reserve_out" /\ Len(probe.data.external_links) > 0
        /\ probe.desired >= 2) =>
        /\ Cardinality(ExternalEntries(probe.out)) = probe.desired \div 2
        /\ \A i \in ExternalEntries(probe.out) :
              /\ probe.out[i].external
              /\ probe.out[i].target \in Range(probe.data.external_links)
        /\ Cardinality(LinkedPages(probe.out)) =
              Min(probe.desired - probe.desired \div 2,
                  Cardinality(OtherPages(probe.slug, probe.data)))

C27_Witness ==
    /\ probe.pc = "reserve_out"
    /\ probe.desired = Desired
    /\ Len(probe.data.external_links) = 1
    /\ Cardinality(ExternalEntries(probe.out)) = 3
    /\ Cardinality(LinkedPages(probe.out)) = 3

(* C28: for every integer override and every stored setting, the word bounds
   _ensure_page passes to generate_article, and those generate_article uses,
   satisfy min >= 200 and max >= min + 200; after a settings update the
   stored article_max_words is greater than the stored article_min_words. *)
C28_WordBounds ==
    /\ probe.pc = "words_out" =>
          /\ probe.passed.min >= WordFloor
          /\ probe.passed.max >= probe.passed.min + WordMargin
          /\ probe.used.min >= WordFloor
          /\ probe.used.max >= probe.used.min + WordMargin
    /\ (probe.pc \in {"stored", "words_out"} /\ probe.updated) =>
          probe.settings.article_max_words > probe.settings.article_min_words

C28_Witness ==
    /\ probe.pc = "words_out"
    /\ probe.updated
    /\ ~probe.form.min.blank /\ ~probe.form.max.blank
    /\ probe.form.max.value < probe.form.min.value
    /\ probe.override.min > 0
    /\ probe.override.max > 0
    /\ probe.override.max < probe.override.min
    /\ probe.passed.max = probe.passed.min + WordMargin

WellFormedSlug(slug) ==
    /\ Len(slug) > 0
    /\ \A i \in DOMAIN slug : IsAlnum(slug[i]) \/ slug[i] = "-"
    /\ slug[1] # "-" /\ slug[Len(slug)] # "-"
    /\ \A i \in 1..(Len(slug) - 1) : ~(slug[i] = "-" /\ slug[i + 1] = "-")

NoAlnum(text) == \A i \in DOMAIN text : ~IsAlnum(Lower(text)[i])

IsPagePlaceholder(slug) ==
    /\ Len(slug) = 9
    /\ SubSeq(slug, 1, 5) = <<"p", "a", "g", "e", "-">>
    /\ \A i \in 6..9 : slug[i] \in Range(DigitChars)
    /\ slug[6] # "0"

(* C29: for every input string slugify returns a non-empty string of
   [a-z0-9] segments joined by single hyphens, without a leading or trailing
   hyphen; when nothing is left of the input it returns page-<n> with n in
   1000..9999; and slugify returns its own output unchanged. *)
C29_SlugDerivation ==
    /\ probe.pc \in {"slug_out", "slug_again"} =>
          /\ WellFormedSlug(probe.slug)
          /\ NoAlnum(probe.text) => IsPagePlaceholder(probe.slug)
    /\ probe.pc = "slug_again" => probe.again = probe.slug

C29_Witness ==
    /\ probe.pc = "slug_again"
    /\ probe.text = <<"B", " ", "!", "7">>
    /\ probe.slug = <<"b", "-", "7">>
    /\ probe.again = probe.slug

EnsureSaves(t) == calls[t].pc \in {"refresh_host", "refresh_links", "save"}

(* C30: no step of an Ensure call removes a host from the persisted domain
   list: a host whose registration has completed stays registered, also when
   the Ensure call loaded its snapshot before the registration and saves it
   afterwards. *)
C30_DomainsKept ==
    [][\A t \in Threads :
          (EnsureSaves(t) /\ calls'[t] # calls[t]) =>
              Range(db.domains) \subseteq Range(db'.domains)]_vars

OtherPagesKept(slug) ==
    \A s \in DOMAIN db.pages \ {slug} :
        s \in DOMAIN db'.pages /\ db'.pages[s] = db.pages[s]

(* C31: with Ensure calls as the only writers, no save of an Ensure call
   erases or changes the persisted page of another slug, and the save that
   ends a generation persists the body that call generated; so calls on
   distinct slugs that ran concurrently each leave their own page behind. *)
C31_NoLostUpdate ==
    [][\A t \in Threads :
          (EnsureSaves(t) /\ calls'[t] # calls[t]) =>
              /\ OtherPagesKept(calls[t].args.slug)
              /\ calls[t].pc = "save" =>
                    /\ calls[t].args.slug \in DOMAIN db'.pages
                    /\ db'.pages[calls[t].args.slug].body = calls[t].article.body
                    /\ calls'[t].result.body = calls[t].article.body]_vars

C31_Witness ==
    \E t, u \in Threads :
        /\ Returned(t) /\ Returned(u) /\ ~SameSlug(t, u)
        /\ calls[t].id = 1 /\ calls[u].id = 2
        /\ calls[t].invoked = 1 /\ calls[u].invoked = 1
        /\ calls[u].result.updated_at < calls[t].result.updated_at
        /\ HasBody(calls[t].result) /\ HasBody(calls[u].result)
        /\ db.pages[calls[t].args.slug].body = calls[t].result.body
        /\ db.pages[calls[u].args.slug].body = calls[u].result.body

(* C32: a page an Ensure call has committed stays persisted under every
   interleaving with the read-modify-write operations that run outside
   PAGE_LOCK (here the host registration of show_page); no step removes a
   persisted page, there being no deletion. *)
C32_PageDurable ==
    [][DOMAIN db.pages \subseteq DOMAIN db'.pages]_vars

(* C33: PAGE_LOCK is never held by a call whose generate_article call is
   pending or running, so calls for different slugs generate at the same time
   and an unforced call on a page that has a body completes while another
   slug's generation is in flight. *)
C33_LockFreeGeneration ==
    \A t \in Threads : calls[t].pc = "generate" => lock # t

(* two generations for two slugs in flight at once *)
TwoGenerationsInFlight ==
    \E t, u \in Threads :
        /\ ~SameSlug(t, u)
        /\ calls[t].pc = "generate" /\ calls[u].pc = "generate"
        /\ lock = 0

C33_Witness ==
    \E t, u \in Threads :
        /\ ~SameSlug(t, u)
        /\ calls[u].pc = "generate" /\ ~calls[u].hadPage
        /\ calls[u].id < calls[t].id
        /\ Returned(t) /\ Warm(t)
        /\ calls[t].invoked = 0
        /\ HasBody(calls[t].result)


(* C34: the link set an Ensure call computes for a page served on host H
   links a page of the same normalized host as H only when every page of a
   different normalized host is linked too: the call gives the weaver the
   current host. *)
C34_HostSupplied ==
    \A t \in Threads :
        calls[t].pc \in {"refresh_host", "refresh_links"} =>
            LET slug == calls[t].args.slug
                same == SameHostPages(slug, calls[t].data, calls[t].args.host)
                cross == OtherPages(slug, calls[t].data) \ same
                linked == LinkedPages(calls[t].links)
            IN  (linked \cap same # {}) => cross \subseteq linked

(* C35: when an Ensure call returns while it is the only writer, the page
   it returns equals, field for field, the page the store holds for the slug;
   this includes a call with force=false that passes a topic or keywords
   override for a page whose body, host and link set are already in place. *)
C35_ReturnedIsPersisted ==
    [][\A t \in Threads :
          (calls[t].pc = "refresh_links" /\ calls'[t].pc = "returned") =>
              /\ calls[t].args.slug \in DOMAIN db'.pages
              /\ db'.pages[calls[t].args.slug] = calls'[t].result]_vars

(* C36: in every reachable state the related-links block rendered in the
   body of a persisted page lists exactly the entries of the page's links
   field, also after an unforced Ensure stored a new link set and kept the
   body. *)
C36_BodyListsLinks ==
    \A s \in DOMAIN db.pages :
        HasBody(db.pages[s]) => db.pages[s].body.links = db.pages[s].links

(* C37: once delete_page(slug) has completed, the slug has no persisted
   page until a later Ensure call commits one: an Ensure call for the slug
   that stood between its two locked sections while the deletion ran does
   not write the page back when it commits. *)
C37_NotResurrected ==
    [][\A t \in Threads :
          (/\ probe.pc = "deleted"
           /\ calls[t].pc = "save"
           /\ calls[t].args.slug = probe.slug
           /\ calls[t].id \in probe.between
           /\ probe.slug \notin DOMAIN db.pages) =>
              probe.slug \notin DOMAIN db'.pages]_vars

(* C38: created_at is write-once: once a page is persisted, no later write
   to the store (forced or unforced Ensure, host refresh, link refresh, a
   snapshot save of another handler) changes the created_at of the page
   persisted for that slug, and created_at <= updated_at holds for every
   persisted page. *)
C38_CreatedAtWriteOnce ==
    [][\A s \in DOMAIN db'.pages :
          LET page == db'.pages[s]
          IN  /\ s \in DOMAIN db.pages =>
                    page.created_at = db.pages[s].created_at
              /\ page.created_at <= page.updated_at]_vars

====
